---- MODULE Spec2Model ----
(***************************************************************************)
(* Model of the Telegram results bot: bot.py (the message handler and its  *)
(* validation), scraper.py (UniversityResultsScraper: the login sequence   *)
(* on the shared requests.Session and the BeautifulSoup extraction) and    *)
(* the portal it talks to.                                                 *)
(*                                                                         *)
(* Text is a sequence of units.  A unit is one character ("1", "2", " ",   *)
(* "(", ".") or one literal word of the page ("The Course", "Grade", the   *)
(* Arabic literals, written here by ASCII names: "NOTICE" for the          *)
(* committee sentence of scraper.py:110, "GPA" for the label of            *)
(* scraper.py:153, "PASS"/"FAIL" for the words of scraper.py:158-161).     *)
(* "AR1" is the Arabic-Indic digit one (U+0661).                           *)
(***************************************************************************)
EXTENDS Integers, Sequences, FiniteSets, TLC

\* ------------------------------------------------------------------ bounds
\* Updates the bot receives in one run.
MaxMsgs == 2
\* Course rows of the largest results table a fixture page holds.
MaxCourses == 2

\* ------------------------------------------------------- program constants
\* bot.py:109  len(user_input) != 10
ID_LENGTH == 10
\* scraper.py:30 and :48  timeout=30
REQUEST_TIMEOUT == 30
\* scraper.py:32 and :53  status_code != 200
HTTP_OK == 200

None == "None"

VARIABLES
  fixture,   \* the page the portal serves to a login it answers with 200
  queue,     \* the updates (message texts) not yet handled
  arrived,   \* the number of updates received
  pc,        \* where handle_university_number stands: "idle", blocked in
             \* session.get ("get") or session.post ("post"), or back from
             \* get_results ("reply")
  request,   \* the request in flight
  session,   \* scraper.session
  cur,       \* the current (or last) call of get_results
  prev,      \* the call of get_results before it
  msg        \* the update being handled (or the last one handled)

vars == <<fixture, queue, arrived, pc, request, session, cur, prev, msg>>

\* ------------------------------------------------------------ text helpers
RECURSIVE Flatten(_)
\* "".join(seqs): the concatenation of a sequence of sequences.
Flatten(seqs) ==
  IF seqs = <<>> THEN <<>> ELSE Head(seqs) \o Flatten(Tail(seqs))

\* needle in hay (Python's str.__contains__): a contiguous run of hay.
Contains(needle, hay) ==
  \E i \in 0..(Len(hay) - Len(needle)) :
    \A k \in 1..Len(needle) : hay[i + k] = needle[k]

Whitespace == {" "}

RECURSIVE LStrip(_)
LStrip(s) ==
  IF s # <<>> /\ Head(s) \in Whitespace THEN LStrip(Tail(s)) ELSE s

RECURSIVE RStrip(_)
RStrip(s) ==
  IF s # <<>> /\ s[Len(s)] \in Whitespace
  THEN RStrip(SubSeq(s, 1, Len(s) - 1)) ELSE s

\* str.strip()
Strip(s) == RStrip(LStrip(s))

\* Characters c with c.isdigit(): the ASCII digits and every other Unicode
\* decimal digit, of which the Arabic-Indic one stands here.
AsciiDigits == {"1", "2"}
UnicodeDigits == AsciiDigits \cup {"AR1"}

\* str.isdigit(): non-empty and every character a Unicode digit.
isdigit(s) == s # <<>> /\ \A i \in DOMAIN s : s[i] \in UnicodeDigits

\* -------------------------------------------------- windows-1256 decoding
\* The code page, on the bytes the fixtures use.  A literal word of the page
\* is abbreviated to one code above 255.  No byte decodes to an Arabic-Indic
\* digit: windows-1256 has none.
CP1256(b) ==
  CASE b = 32 -> " "  [] b = 40 -> "("  [] b = 41 -> ")"  [] b = 46 -> "."
    [] b = 49 -> "1"  [] b = 50 -> "2"  [] b = 97 -> "a"
    [] b = 300 -> "The Course" [] b = 301 -> "Grade"
    [] b = 302 -> "Math" [] b = 303 -> "Physics"
    [] b = 304 -> "A" [] b = 305 -> "B" [] b = 306 -> "Home"
    [] b = 310 -> "NOTICE" [] b = 311 -> "GPA"
    [] b = 312 -> "PASS" [] b = 313 -> "FAIL"
    [] OTHER -> "?"

Bytes == {32, 40, 41, 46, 49, 50, 97, 300, 301, 302, 303, 304, 305, 306,
          310, 311, 312, 313}

\* bytes.decode('windows-1256')
Decode1256(bytes) == [i \in DOMAIN bytes |-> CP1256(bytes[i])]

\* What the portal does to put text on a page: the byte of each unit.
Encode1256(text) ==
  [i \in DOMAIN text |-> CHOOSE b \in Bytes : CP1256(b) = text[i]]

\* --------------------------------------------------------- document tree
\* A document is [head, tables, tail, fault]; a table is [rows]; a row is
\* [cells]; a cell is [tag, text, tables] with tag "th" or "td", its own
\* text (bytes) and the tables nested in it.

RECURSIVE TableText(_)
RECURSIVE RowText(_)
RECURSIVE CellText(_)

\* Tag.get_text() of a cell: its own text, then the text of what it holds.
CellText(c) ==
  Decode1256(c.text)
    \o Flatten([k \in DOMAIN c.tables |-> TableText(c.tables[k])])

\* row.get_text()
RowText(r) == Flatten([j \in DOMAIN r.cells |-> CellText(r.cells[j])])

TableText(t) == Flatten([i \in DOMAIN t.rows |-> RowText(t.rows[i])])

\* soup.get_text(); response.text is the same text (the markup is not
\* modelled).
DocText(d) ==
  Decode1256(d.head)
    \o Flatten([i \in DOMAIN d.tables |-> TableText(d.tables[i])])
    \o Decode1256(d.tail)

RECURSIVE CellStrippedText(_)
\* Tag.get_text(strip=True): every string stripped, then joined.
CellStrippedText(c) ==
  Strip(Decode1256(c.text))
    \o Flatten([k \in DOMAIN c.tables |->
         Flatten([i \in DOMAIN c.tables[k].rows |->
           Flatten([j \in DOMAIN c.tables[k].rows[i].cells |->
             CellStrippedText(c.tables[k].rows[i].cells[j])])])])

\* The tables directly inside the cells of a table, in document order.
ChildTables(t) ==
  Flatten([i \in DOMAIN t.rows |->
    Flatten([j \in DOMAIN t.rows[i].cells |-> t.rows[i].cells[j].tables])])

RECURSIVE find_all_table(_)
\* find_all('table'): every table, nested ones included, in document order.
find_all_table(tables) ==
  Flatten([i \in DOMAIN tables |->
    <<tables[i]>> \o find_all_table(ChildTables(tables[i]))])

RECURSIVE find_all_tr(_)
\* table.find_all('tr'): every row below the table, nested tables' rows
\* included, in document order.
find_all_tr(t) ==
  Flatten([i \in DOMAIN t.rows |->
    <<t.rows[i]>>
      \o Flatten([j \in DOMAIN t.rows[i].cells |->
           Flatten([k \in DOMAIN t.rows[i].cells[j].tables |->
             find_all_tr(t.rows[i].cells[j].tables[k])])])])

RECURSIVE find_all_cell(_, _)
\* row.find_all('th') / row.find_all('td'): every such cell below the row.
find_all_cell(r, tag) ==
  Flatten([j \in DOMAIN r.cells |->
    (IF r.cells[j].tag = tag THEN <<r.cells[j]>> ELSE <<>>)
      \o Flatten([k \in DOMAIN r.cells[j].tables |->
           Flatten([i \in DOMAIN r.cells[j].tables[k].rows |->
             find_all_cell(r.cells[j].tables[k].rows[i], tag)])])])

\* ------------------------------------------------------ calls and records
\* How a Python call ends: it returns a value or raises an exception.
Return(v) == [kind |-> "return", value |-> v]
Raise(e) == [kind |-> "raise", exc |-> e]

\* The exceptions of the libraries; str(e) is e.msg.
ReadTimeout == [type |-> "ReadTimeout", msg |-> <<"Read timed out.">>]
ConnectionError == [type |-> "ConnectionError", msg |-> <<"Connection refused">>]
ParserRejectedMarkup == [type |-> "ParserRejectedMarkup", msg |-> <<"rejected markup">>]
RecursionError ==
  [type |-> "RecursionError", msg |-> <<"maximum recursion depth exceeded">>]

\* The texts of the failure records (the Arabic sentences of scraper.py).
MSG_CONNECTION_FAILED == <<"CONNECTION_FAILED">>
MSG_LOGIN_FAILED == <<"LOGIN_FAILED">>
MSG_NO_RESULTS == <<"NO_RESULTS">>
MSG_EXTRACT_ERROR == <<"EXTRACT_ERROR:">>
MSG_PROCESS_ERROR == <<"PROCESS_ERROR:">>

Failure(error) == [success |-> FALSE, error |-> error]

\* gpa = None is the empty text: the group of [\d.]+ is never empty.
NoGpa == <<>>

\* ------------------------------------------------------- Result Extractor
MARK_COURSE == <<"The Course">>
MARK_GRADE == <<"Grade">>

RECURSIVE SkipWhile(_, _, _)
\* The first position from i on whose unit is not in set (Len + 1 if none):
\* where a greedy \s* or [\d.]+ starting at i ends.
SkipWhile(text, i, set) ==
  IF i <= Len(text) /\ text[i] \in set
  THEN SkipWhile(text, i + 1, set) ELSE i

GpaChars == UnicodeDigits \cup {"."}

\* The match of  GPA \s* \( \s* ([\d.]+) \s* \)  starting at i: group 1, or
\* NoGpa when the pattern does not match there.
GpaMatchAt(text, i) ==
  LET open == SkipWhile(text, i + 1, Whitespace)
      num == SkipWhile(text, open + 1, Whitespace)
      end == SkipWhile(text, num, GpaChars)
      close == SkipWhile(text, end, Whitespace)
  IN IF /\ text[i] = "GPA"
        /\ open <= Len(text) /\ text[open] = "("
        /\ end > num
        /\ close <= Len(text) /\ text[close] = ")"
     THEN SubSeq(text, num, end - 1)
     ELSE NoGpa

\* re.search(...): the leftmost match.
GpaSearch(text) ==
  LET hits == {i \in DOMAIN text : GpaMatchAt(text, i) # NoGpa}
  IN IF hits = {} THEN NoGpa
     ELSE GpaMatchAt(text, CHOOSE i \in hits : \A j \in hits : i <= j)

\* scraper.py:122-126
has_results_header(rows) ==
  \E i \in DOMAIN rows :
    /\ Contains(MARK_COURSE, RowText(rows[i]))
    /\ Contains(MARK_GRADE, RowText(rows[i]))

\* scraper.py:134-150, one row: the courses it appends.
RowCourses(row) ==
  LET th_elements == find_all_cell(row, "th")
      td_elements == find_all_cell(row, "td")
  IN IF Contains(MARK_COURSE, RowText(row)) THEN <<>>
     ELSE IF th_elements # <<>> /\ td_elements # <<>>
     THEN LET course_name == CellStrippedText(th_elements[1])
              grade == CellStrippedText(td_elements[1])
          IN IF course_name # <<>> /\ grade # <<>>
             THEN <<[name |-> course_name, grade |-> grade]>>
             ELSE <<>>
     ELSE <<>>

\* scraper.py:117-150, one table.
TableCourses(table) ==
  LET rows == find_all_tr(table)
  IN IF has_results_header(rows)
     THEN Flatten([i \in DOMAIN rows |-> RowCourses(rows[i])])
     ELSE <<>>

\* scraper.py:114-150
ExtractCourses(soup) ==
  LET tables == find_all_table(soup.tables)
  IN Flatten([i \in DOMAIN tables |-> TableCourses(tables[i])])

\* NewStudentInfo as a dict shared by all calls (a class attribute or a
\* default argument): it still holds the courses of the call before.
StaleStudentInfo(university_number) ==
  [success |-> TRUE,
   university_number |-> university_number,
   courses |-> IF prev.outcome.kind = "return" /\ prev.outcome.value.success
               THEN prev.outcome.value.courses ELSE <<>>,
   gpa |-> NoGpa,
   status |-> None,
   notice |-> None]

\* scraper.py:97-104: the dict every call of _parse_results starts from.
NewStudentInfo(university_number) ==
  [success |-> TRUE,
   university_number |-> university_number,
   courses |-> <<>>,
   gpa |-> NoGpa,
   status |-> None,
   notice |-> None]

\* NothingFound that lets a page with only a status through.
NothingFound_UnlessStatus(student_info) ==
  /\ student_info.courses = <<>>
  /\ student_info.gpa = NoGpa
  /\ student_info.status = None

\* scraper.py:165: not student_info['courses'] and not student_info['gpa']
NothingFound(student_info) ==
  student_info.courses = <<>> /\ student_info.gpa = NoGpa

\* The try block of _parse_results (scraper.py:96-171).
ParseBody(soup, university_number) ==
  IF soup.fault = "recursion" THEN Raise(RecursionError)
  ELSE
    LET text_content == DocText(soup)
        fresh == NewStudentInfo(university_number)
        student_info ==
          [fresh EXCEPT
             !.notice = IF Contains(<<"NOTICE">>, text_content)
                        THEN "NOTICE" ELSE @,
             !.courses = @ \o ExtractCourses(soup),
             !.gpa = IF GpaSearch(text_content) # NoGpa
                     THEN GpaSearch(text_content) ELSE @,
             !.status = IF Contains(<<"PASS">>, text_content) THEN "PASS"
                        ELSE IF Contains(<<"FAIL">>, text_content)
                        THEN "FAIL" ELSE @]
    IN IF NothingFound(student_info)
       THEN Return(Failure(MSG_NO_RESULTS))
       ELSE Return(student_info)

\* except Exception as e (scraper.py:173-180)
ParseExcept(outcome) ==
  IF outcome.kind = "raise"
  THEN Return(Failure(MSG_PROCESS_ERROR \o outcome.exc.msg))
  ELSE outcome

_parse_results(soup, university_number) ==
  ParseExcept(ParseBody(soup, university_number))

\* ------------------------------------------------------------- the portal
\* Fixture pages.  The portal of one run serves one page to a login it
\* answers with status 200; the transport outcome of each request is its
\* own choice.
Cell(tag, text) == [tag |-> tag, text |-> Encode1256(text), tables |-> <<>>]

HeaderRow ==
  [cells |-> <<Cell("th", <<"The Course">>), Cell("th", <<"Grade">>)>>]

CourseName(k) == <<"Math">> \o [i \in 1..k |-> "1"]
CourseGrade(k) == IF k % 2 = 1 THEN <<"A">> ELSE <<"B">>

CourseRow(k) ==
  [cells |-> <<Cell("th", <<" ">> \o CourseName(k)),
               Cell("td", CourseGrade(k) \o <<" ">>)>>]

\* Ragged markup: a row without a data cell, a row with an empty grade.
RaggedRow == [cells |-> <<Cell("th", <<"Physics">>)>>]
EmptyGradeRow ==
  [cells |-> <<Cell("th", <<"Physics">>), Cell("td", <<" ">>)>>]

\* A results table with n course rows.
ResultsTable(n) ==
  [rows |-> <<HeaderRow>> \o [k \in 1..n |-> CourseRow(k)]
              \o <<RaggedRow, EmptyGradeRow>>]

NavRow == [cells |-> <<Cell("th", <<"Home">>), Cell("td", <<"a">>)>>]

\* A table without the markers.
DecoyTable == [rows |-> <<NavRow>>]

\* A layout table: a navigation row, and a row whose cell holds inner.
LayoutTable(inner) ==
  [rows |-> <<NavRow,
              [cells |-> <<[tag |-> "td", text |-> <<>>,
                            tables |-> <<inner>>]>>]>>]

TableLayouts ==
  {<<>>, <<DecoyTable>>}
    \cup {<<ResultsTable(n)>> : n \in 0..MaxCourses}
    \cup {<<DecoyTable, ResultsTable(MaxCourses)>>,
          <<LayoutTable(ResultsTable(1))>>}

Tails ==
  {<<>>,
   <<"GPA", " ", "(", " ", "2", ".", "1", ")", "PASS">>,
   <<"NOTICE", "FAIL">>}

Rep(c, n) == [i \in 1..n |-> c]

\* The identifiers of the run: two students' numbers, and the first one
\* typed with an Arabic-Indic digit.
IdA == Rep("1", ID_LENGTH)
IdB == [IdA EXCEPT ![ID_LENGTH] = "2"]
IdAr == [IdA EXCEPT ![1] = "AR1"]

Page(head, tables, tail, fault) ==
  [head |-> Encode1256(head), tables |-> tables,
   tail |-> Encode1256(tail), fault |-> fault]

\* The pages of student IdA echo the number; a page that echoes none is the
\* portal's login form again; two pages make the parser libraries raise.
Pages ==
  {Page(IdA, t, tl, "none") : t \in TableLayouts, tl \in Tails}
    \cup {Page(<<>>, t, <<>>, "none") :
            t \in {<<>>, <<ResultsTable(1)>>}}
    \cup {Page(IdA, <<ResultsTable(1)>>, <<>>, f) :
            f \in {"builder", "recursion"}}

EmptyPage == Page(<<>>, <<>>, <<>>, "none")

\* What the portal can do with a request it answers: a response with a
\* status, or a transport fault.  (Not answering at all is the portal
\* taking no step; see Timeout.)
Response(status, body) == [status |-> status, body |-> body]

GetOutcomes ==
  {Return(Response(200, EmptyPage)), Return(Response(500, EmptyPage)),
   Raise(ConnectionError)}

PostOutcomes(page) ==
  {Return(Response(200, page)), Return(Response(500, EmptyPage)),
   Raise(ConnectionError)}

\* ------------------------------------------------------------ the scraper
\* config.py:11-12 and bot.py:16: the one scraper of the process.
scraper ==
  [portal_url |-> "PORTAL_URL", default_password |-> "DEFAULT_PASSWORD"]

\* scraper.py:12-16: the one requests.Session of the scraper.  cookies is
\* its jar, logins the usernames posted with that jar, lookups the number of
\* calls of get_results that used it.
NewSession == [cookies |-> {}, logins |-> {}, lookups |-> 0]

\* GetRequest without timeout=30.
GetRequest_NoTimeout(jar) ==
  [method |-> "GET", url |-> scraper.portal_url, username |-> <<>>,
   cookies |-> jar, timeout |-> {}]

\* scraper.py:30  self.session.get(self.portal_url, timeout=30)
GetRequest(jar) ==
  [method |-> "GET", url |-> scraper.portal_url, username |-> <<>>,
   cookies |-> jar, timeout |-> {REQUEST_TIMEOUT}]

\* scraper.py:39-50  self.session.post(.../index.php, data=login_data,
\* timeout=30, allow_redirects=True)
PostRequest(jar, university_number) ==
  [method |-> "POST", url |-> scraper.portal_url,
   username |-> university_number, cookies |-> jar,
   timeout |-> {REQUEST_TIMEOUT}]

NoRequest ==
  [method |-> "none", url |-> "", username |-> <<>>, cookies |-> {},
   timeout |-> {}]

\* LoginAfterGet without the status check of scraper.py:32.
LoginAfterGet_NoStatusCheck(o) ==
  IF o.kind = "raise" THEN o ELSE [kind |-> "post"]

\* scraper.py:30-36: what login_and_get_results does with the outcome of
\* the GET: the exception goes on to the except clause, a status other than
\* 200 returns the failure record, status 200 goes on to the POST.
LoginAfterGet(o) ==
  IF o.kind = "raise" THEN o
  ELSE IF o.value.status # HTTP_OK
  THEN Return(Failure(MSG_CONNECTION_FAILED))
  ELSE [kind |-> "post"]

\* scraper.py:60-63  response.encoding = 'windows-1256'; response.text
ResponseText(response) == DocText(response.body)

\* scraper.py:71  BeautifulSoup(response.content, 'lxml',
\* from_encoding='windows-1256'): the tree, or the builder's exception.
BeautifulSoup(response) ==
  IF response.body.fault = "builder" THEN Raise(ParserRejectedMarkup)
  ELSE Return(response.body)

\* LoginAfterPost without the echo check of scraper.py:63.
LoginAfterPost_NoEcho(o, university_number) ==
  IF o.kind = "raise" THEN [calls |-> <<>>, outcome |-> o]
  ELSE IF o.value.status # HTTP_OK
  THEN [calls |-> <<>>, outcome |-> Return(Failure(MSG_LOGIN_FAILED))]
  ELSE LET soup == BeautifulSoup(o.value)
       IN IF soup.kind = "raise"
          THEN [calls |-> <<"BeautifulSoup">>, outcome |-> soup]
          ELSE [calls |-> <<"BeautifulSoup", "_parse_results">>,
                outcome |-> _parse_results(soup.value, university_number)]

\* scraper.py:52-73: what login_and_get_results does with the outcome of
\* the POST; calls lists the calls it makes on the way.
LoginAfterPost(o, university_number) ==
  IF o.kind = "raise" THEN [calls |-> <<>>, outcome |-> o]
  ELSE IF o.value.status # HTTP_OK
  THEN [calls |-> <<>>, outcome |-> Return(Failure(MSG_LOGIN_FAILED))]
  ELSE IF ~Contains(university_number, ResponseText(o.value))
  THEN [calls |-> <<>>, outcome |-> Return(Failure(MSG_LOGIN_FAILED))]
  ELSE LET soup == BeautifulSoup(o.value)
       IN IF soup.kind = "raise"
          THEN [calls |-> <<"BeautifulSoup">>, outcome |-> soup]
          ELSE [calls |-> <<"BeautifulSoup", "_parse_results">>,
                outcome |-> _parse_results(soup.value, university_number)]

\* LoginExcept as  except requests.RequestException as e.
LoginExcept_RequestsOnly(o) ==
  IF o.kind = "raise" /\ o.exc.type \in {"ReadTimeout", "ConnectionError"}
  THEN Return(Failure(MSG_EXTRACT_ERROR \o o.exc.msg))
  ELSE o

\* scraper.py:75-82  except Exception as e
LoginExcept(o) ==
  IF o.kind = "raise"
  THEN Return(Failure(MSG_EXTRACT_ERROR \o o.exc.msg))
  ELSE o

\* scraper.py:194-231
format_results_message(results) ==
  IF ~results.success THEN <<"X">> \o results.error
  ELSE <<"RESULTS", "ID">> \o results.university_number
       \o (IF results.notice # None THEN <<"!", results.notice>> ELSE <<>>)
       \o (IF results.courses # <<>>
           THEN <<"COURSES">>
                \o Flatten([i \in DOMAIN results.courses |->
                     <<ToString(i)>> \o results.courses[i].name
                       \o <<":">> \o results.courses[i].grade])
           ELSE <<>>)
       \o (IF results.gpa # NoGpa THEN <<"GPA=">> \o results.gpa ELSE <<>>)
       \o (IF results.status # None
           THEN <<(IF results.status = "PASS" THEN "OK" ELSE "X"),
                  results.status>>
           ELSE <<>>)

\* ---------------------------------------------------------------- the bot
\* The texts users send.
Texts ==
  {IdA, IdB, IdAr,
   <<" ">> \o IdA \o <<" ">>,
   Rep("1", ID_LENGTH - 1),
   Rep("1", ID_LENGTH + 1),
   [IdA EXCEPT ![2] = "a"]}

\* The replies of bot.py:102, :110, :118 and :145.
REPLY_DIGITS_ONLY == <<"REJECT_DIGITS_ONLY">>
REPLY_TEN_DIGITS == <<"REJECT_TEN_DIGITS">>
REPLY_PROCESSING == <<"PROCESSING">>
REPLY_ERROR == <<"GENERIC_ERROR">>

\* bot.py:100-115: the verdict on the stripped text.
Validate(user_input) ==
  IF ~isdigit(user_input) THEN "not_digits"
  ELSE IF Len(user_input) # ID_LENGTH THEN "wrong_length"
  ELSE "ok"

NoAnswer == [kind |-> "none"]
Pending == [kind |-> "pending"]

NoLookup ==
  [seq |-> 0, ident |-> <<>>, gets |-> 0, posts |-> 0,
   get |-> NoAnswer, post |-> NoAnswer, calls |-> <<>>, outcome |-> Pending]

NoMsg ==
  [text |-> <<>>, user_input |-> <<>>, replies |-> <<>>,
   processing |-> "none", requests |-> 0, handler |-> "none"]

Init ==
  /\ fixture \in Pages
  /\ queue = <<>>
  /\ arrived = 0
  /\ pc = "idle"
  /\ request = NoRequest
  /\ session = NewSession
  /\ cur = NoLookup
  /\ prev = NoLookup
  /\ msg = NoMsg

\* A user sends a text (bot.py:171-174 queues every non-command text).
Receive(text) ==
  /\ arrived < MaxMsgs
  /\ arrived' = arrived + 1
  /\ queue' = Append(queue, text)
  /\ UNCHANGED <<fixture, pc, request, session, cur, prev, msg>>

\* bot.py:96-125 up to the first network call: strip, validate, reject or
\* send the processing message and enter get_results ->
\* login_and_get_results, which issues the GET on scraper.session.
handle_university_number ==
  /\ pc = "idle"
  /\ queue # <<>>
  /\ queue' = Tail(queue)
  /\ LET text == Head(queue)
         user_input == Strip(text)
         verdict == Validate(user_input)
     IN IF verdict # "ok"
        THEN /\ msg' = [text |-> text, user_input |-> user_input,
                        replies |-> <<IF verdict = "not_digits"
                                      THEN REPLY_DIGITS_ONLY
                                      ELSE REPLY_TEN_DIGITS>>,
                        processing |-> "none", requests |-> 0,
                        handler |-> "returned"]
             /\ UNCHANGED <<pc, request, session, cur, prev>>
        ELSE /\ msg' = [text |-> text, user_input |-> user_input,
                        replies |-> <<REPLY_PROCESSING>>,
                        processing |-> "shown", requests |-> 1,
                        handler |-> "running"]
             /\ prev' = cur
             /\ cur' = [NoLookup EXCEPT !.seq = cur.seq + 1,
                                        !.ident = user_input, !.gets = 1]
             /\ session' = [session EXCEPT !.lookups = @ + 1]
             /\ request' = GetRequest(session.cookies)
             /\ pc' = "get"
  /\ UNCHANGED <<fixture, arrived>>

\* scraper.py:182-192 over :28-82: what get_results hands to its caller
\* when the try block of login_and_get_results ended with o.
get_results(o) == LoginExcept(o)

\* login_and_get_results from the outcome o of session.get on: it returns
\* to the handler, or issues the POST on the same session.
ContinueGet(o) ==
  LET step == LoginAfterGet(o)
  IN IF step.kind = "post"
     THEN /\ cur' = [cur EXCEPT !.get = o, !.posts = @ + 1]
          /\ session' = [session EXCEPT !.cookies = @ \cup {"PHPSESSID"},
                                        !.logins = @ \cup {cur.ident}]
          /\ request' = PostRequest(session.cookies \cup {"PHPSESSID"}, cur.ident)
          /\ msg' = [msg EXCEPT !.requests = @ + 1]
          /\ pc' = "post"
     ELSE /\ cur' = [cur EXCEPT !.get = o, !.outcome = get_results(step)]
          /\ request' = NoRequest
          /\ pc' = "reply"
          /\ UNCHANGED <<session, msg>>

\* login_and_get_results from the outcome o of session.post on.
ContinuePost(o) ==
  LET r == LoginAfterPost(o, cur.ident)
  IN /\ cur' = [cur EXCEPT !.post = o, !.calls = r.calls,
                           !.outcome = get_results(r.outcome)]
     /\ request' = NoRequest
     /\ pc' = "reply"
     /\ UNCHANGED <<session, msg>>

\* The portal answers the GET (or the connection fails).
GetAnswer ==
  /\ pc = "get"
  /\ \E o \in GetOutcomes : ContinueGet(o)
  /\ UNCHANGED <<fixture, queue, arrived, prev>>

\* The portal answers the POST (or the connection fails).
PostAnswer ==
  /\ pc = "post"
  /\ \E o \in PostOutcomes(fixture) : ContinuePost(o)
  /\ UNCHANGED <<fixture, queue, arrived, prev>>

\* No answer within the timeout of the request in flight: requests raises
\* ReadTimeout.  A request without a timeout waits forever.
Timeout ==
  /\ request.timeout # {}
  /\ \/ pc = "get" /\ ContinueGet(Raise(ReadTimeout))
     \/ pc = "post" /\ ContinuePost(Raise(ReadTimeout))
  /\ UNCHANGED <<fixture, queue, arrived, prev>>

\* What Telegram does with the two calls of bot.py:131-137.
TelegramOutcomes == {"ok", "delete_fails", "reply_fails"}

\* bot.py:125-149, after get_results: format, delete the processing
\* message, send the result; the except branch deletes and sends the generic
\* error.  tg = "delete_fails": the delete of :131 raises and the one of
\* :144 goes through.  tg = "reply_fails": the reply of :134 raises, and the
\* delete of :144 raises again (the message is gone), out of the handler.
Reply(tg) ==
  /\ pc = "reply"
  /\ pc' = "idle"
  /\ msg' =
       IF cur.outcome.kind = "raise"
       THEN [msg EXCEPT !.processing = "deleted",
                        !.replies = Append(@, REPLY_ERROR),
                        !.handler = "except_get_results"]
       ELSE IF tg = "ok"
       THEN [msg EXCEPT !.processing = "deleted",
                        !.replies =
                          Append(@, format_results_message(cur.outcome.value)),
                        !.handler = "returned"]
       ELSE IF tg = "delete_fails"
       THEN [msg EXCEPT !.processing = "deleted",
                        !.replies = Append(@, REPLY_ERROR),
                        !.handler = "except_telegram"]
       ELSE [msg EXCEPT !.processing = "deleted",
                        !.handler = "raised"]
  /\ UNCHANGED <<fixture, queue, arrived, request, session, cur, prev>>

Next ==
  \/ \E text \in Texts : Receive(text)
  \/ handle_university_number
  \/ GetAnswer
  \/ PostAnswer
  \/ Timeout
  \/ \E tg \in TelegramOutcomes : Reply(tg)

Spec == Init /\ [][Next]_vars

\* The pages of the runs checked for progress: one with results, the login
\* form, and one the parser fails on.
LivePages ==
  {Page(IdA, <<ResultsTable(1)>>, <<>>, "none"),
   Page(<<>>, <<>>, <<>>, "none"),
   Page(IdA, <<ResultsTable(1)>>, <<>>, "recursion")}

LiveInit == Init /\ fixture \in LivePages

\* The scheduling: the handler runs whenever an update is queued, the call
\* in flight times out if nothing answers it, and Telegram's calls return.
\* Nothing makes the portal answer or users write.
LiveSpec ==
  /\ LiveInit
  /\ [][Next]_vars
  /\ WF_vars(handle_university_number)
  /\ WF_vars(Timeout)
  /\ WF_vars(\E tg \in TelegramOutcomes : Reply(tg))

\* ------------------------------------------------------------ properties
\* The current call of get_results has handed its result to the handler.
Done == cur.seq > 0 /\ cur.outcome.kind # "pending"

Returned == Done /\ cur.outcome.kind = "return"

Rec == cur.outcome.value

Status200(o) == o.kind = "return" /\ o.value.status = HTTP_OK

ParseCalled == \E i \in DOMAIN cur.calls : cur.calls[i] = "_parse_results"

\* The POST was answered 200 with a page that echoes the identifier.
Authenticated ==
  /\ Status200(cur.get)
  /\ Status200(cur.post)
  /\ Contains(cur.ident, Decode1256(cur.post.value.body.head)
                           \o Flatten([i \in DOMAIN cur.post.value.body.tables |->
                                TableText(cur.post.value.body.tables[i])])
                           \o Decode1256(cur.post.value.body.tail))

\* C1: session isolation.  A session that carried the login of identifier
\* A is never used for the GET or the POST of a lookup for another
\* identifier B: while a request of a lookup is in flight, the session it
\* runs on has carried no login but this lookup's own.
C1_SessionIsolation ==
  pc \in {"get", "post"} => session.logins \subseteq {cur.ident}

\* C2: no exception escapes the core.  get_results always returns a record;
\* under every fault (transport fault or status other than 200 on the GET
\* or the POST, missing echo, a fault of the parser libraries) the record
\* has success = FALSE and an error; the handler's except branch is never
\* entered because get_results raised.
Faulted ==
  \/ cur.get.kind = "raise"
  \/ (cur.get.kind = "return" /\ cur.get.value.status # HTTP_OK)
  \/ cur.post.kind = "raise"
  \/ (cur.post.kind = "return" /\ cur.post.value.status # HTTP_OK)
  \/ (Status200(cur.post) /\ ~Authenticated)
  \/ (Status200(cur.post) /\ cur.post.value.body.fault # "none")

C3_TerminalValidation ==
  Returned =>
    /\ (Rec.success => Rec.courses # <<>> \/ Rec.gpa # NoGpa)
    /\ (/\ ParseCalled
        /\ cur.post.value.body.fault = "none"
        /\ ExtractCourses(cur.post.value.body) = <<>>
        /\ GpaSearch(DocText(cur.post.value.body)) = NoGpa
        => Rec = Failure(MSG_NO_RESULTS))

\* Witness of C3: a page with a notice and a status but no course and no
\* GPA was parsed and came back as the bare failure record.
C3_Witness ==
  /\ Returned
  /\ ParseCalled
  /\ Contains(<<"NOTICE", "FAIL">>, DocText(cur.post.value.body))
  /\ Rec = Failure(MSG_NO_RESULTS)

\* C4: parsing is reached only through Authenticated.  _parse_results is
\* called only after GET 200, POST 200 and the identifier found in the
\* decoded body; without the echo the lookup returns the login-failure
\* record and _parse_results is not called.
C4_ParseOnlyAuthenticated ==
  /\ (ParseCalled => Authenticated)
  /\ (Done /\ Status200(cur.post) /\ ~Authenticated =>
        /\ ~ParseCalled
        /\ cur.outcome = Return(Failure(MSG_LOGIN_FAILED)))

\* Witness of C4: a lookup for student B got status 200 and the page of
\* student A, and ended in the login failure without parsing.
C4_Witness ==
  /\ Done
  /\ cur.ident = IdB
  /\ Status200(cur.post)
  /\ Contains(IdA, DocText(cur.post.value.body))
  /\ ~ParseCalled
  /\ Rec = Failure(MSG_LOGIN_FAILED)

\* C5: no retries, fail fast.  A lookup issues at most one GET and at most
\* one POST, the POST only after the GET was answered 200, and once the
\* lookup has its record no request is in flight and the requests of the
\* update are those of the one GET and the one POST.
C5_NoRetryFailFast ==
  /\ cur.gets <= 1
  /\ cur.posts <= 1
  /\ (cur.posts = 1 => Status200(cur.get))
  /\ (pc = "post" => Status200(cur.get))
  /\ (Done => request = NoRequest /\ pc \in {"reply", "idle"})
  /\ (Done /\ pc = "reply" => msg.requests = cur.gets + cur.posts)
  /\ (Done /\ ~Status200(cur.get) => cur.posts = 0 /\ ~Rec.success)

\* Witness of C5: the GET was answered with status 500 and the lookup ended
\* in a failure record without a POST.
C5_Witness ==
  /\ Returned
  /\ cur.get.kind = "return"
  /\ cur.get.value.status = 500
  /\ cur.posts = 0
  /\ ~Rec.success

\* The course rows of the document as the claim counts them: a table
\* qualifies by a row of its own with both markers, and its course rows are
\* its own rows other than the header with a non-empty header cell and a
\* non-empty data cell.
OwnCells(row, tag) ==
  LET idx == {j \in DOMAIN row.cells : row.cells[j].tag = tag}
  IN [n \in 1..Cardinality(idx) |->
        row.cells[CHOOSE j \in idx :
                    Cardinality({m \in idx : m <= j}) = n]]

OwnRowText(row) ==
  Flatten([j \in DOMAIN row.cells |-> Decode1256(row.cells[j].text)])

IsHeaderRow(row) ==
  Contains(MARK_COURSE, OwnRowText(row)) /\ Contains(MARK_GRADE, OwnRowText(row))

OwnCourseRows(table) ==
  IF \E i \in DOMAIN table.rows : IsHeaderRow(table.rows[i])
  THEN Flatten([i \in DOMAIN table.rows |->
         LET row == table.rows[i]
             th == OwnCells(row, "th")
             td == OwnCells(row, "td")
         IN IF /\ ~IsHeaderRow(row)
               /\ th # <<>> /\ td # <<>>
               /\ Strip(Decode1256(th[1].text)) # <<>>
               /\ Strip(Decode1256(td[1].text)) # <<>>
            THEN <<[name |-> Strip(Decode1256(th[1].text)),
                    grade |-> Strip(Decode1256(td[1].text))]>>
            ELSE <<>>])
  ELSE <<>>

CourseRowsOfDocument(doc) ==
  LET tables == find_all_table(doc.tables)
  IN Flatten([i \in DOMAIN tables |-> OwnCourseRows(tables[i])])

\* C6: course extraction is exact.  The courses of a success record are the
\* course rows of the qualifying tables of the page, each once, in document
\* order, also when the results table is nested in a layout table, and no
\* row of a non-qualifying table is among them.
C6_CourseExtractionExact ==
  Returned /\ Rec.success =>
    Rec.courses = CourseRowsOfDocument(cur.post.value.body)

\* C7: failure reasons are a closed set and do not leak the fault.  The
\* error of a failure record is one of the fixed messages; a transport
\* fault gives 'connection failed' or 'login failed'; the text of the
\* caught exception is not in the record.
TransportFault ==
  cur.get.kind = "raise" \/ cur.post.kind = "raise"

C7_ClosedFailureReasons ==
  Returned /\ ~Rec.success =>
    /\ Rec.error \in {MSG_CONNECTION_FAILED, MSG_LOGIN_FAILED,
                      MSG_NO_RESULTS, MSG_EXTRACT_ERROR, MSG_PROCESS_ERROR}
    /\ (TransportFault =>
          Rec.error \in {MSG_CONNECTION_FAILED, MSG_LOGIN_FAILED})
    /\ \A e \in {ReadTimeout, ConnectionError, ParserRejectedMarkup,
                 RecursionError} : ~Contains(e.msg, Rec.error)

Handled(n) ==
  \/ arrived - Len(queue) > n
  \/ (arrived - Len(queue) = n /\ pc = "idle")

TenAsciiDigits(s) ==
  Len(s) = ID_LENGTH /\ \A i \in DOMAIN s : s[i] \in AsciiDigits

\* C10: validation precedes lookup.  get_results is called only when the
\* stripped text is exactly ten digits 0-9; any other text gets exactly one
\* rejection reply, no processing message and no request to the portal.
C10_ValidationPrecedesLookup ==
  msg.handler # "none" /\ ~TenAsciiDigits(Strip(msg.text)) =>
    /\ msg.replies \in {<<REPLY_DIGITS_ONLY>>, <<REPLY_TEN_DIGITS>>}
    /\ msg.processing = "none"
    /\ msg.requests = 0

====
